---- MODULE Spec2Model ----
(***************************************************************************)
(* Two MCP tool servers of the repository, each its own program:           *)
(*   "fofa"   - mcp_fofa_server.go, tool fofa_search                       *)
(*   "hunter" - the Hunter server (unnamed/part_000), tool hunter_search   *)
(* A run of the model is a run of one of the two programs: the flags are   *)
(* parsed, the credentials checked, the tool registered, the server        *)
(* started, and then tool invocations are handled.  The handler of a tool  *)
(* is a closure that shares nothing with other invocations, so one         *)
(* invocation is one action; the HTTP reply of the backend is its input.   *)
(*                                                                         *)
(* Text is modelled as a sequence of characters (one-character strings).   *)
(* A character outside ASCII is written as its code point, "U641C".        *)
(***************************************************************************)
EXTENDS Integers, Sequences, FiniteSets, TLC

VARIABLES prog, email, key, pc, exitStatus, tools, nInv, httpCalls, last

vars == <<prog, email, key, pc, exitStatus, tools, nInv, httpCalls, last>>

----------------------------------------------------------------------------
(* Bounds of the model. *)

\* invocations handled in one run
MaxInv == 2
\* page and size arguments range over -1 .. MaxArg
MaxArg == 2
\* records in one backend response
MaxRecords == 2
\* characters of a backend error message
MaxMsgLen == 2

----------------------------------------------------------------------------
(* Text helpers. *)

RECURSIVE Concat(_)
\* the concatenation of a sequence of texts
Concat(ss) == IF ss = <<>> THEN <<>> ELSE Head(ss) \o Concat(Tail(ss))

RECURSIVE Join(_, _)
\* strings.Join
Join(ss, sep) ==
    IF ss = <<>> THEN <<>>
    ELSE IF Len(ss) = 1 THEN ss[1]
    ELSE ss[1] \o sep \o Join(Tail(ss), sep)

Digits == <<"0", "1", "2", "3", "4", "5", "6", "7", "8", "9">>

RECURSIVE DecNat(_)
DecNat(n) == IF n < 10 THEN <<Digits[n + 1]>>
             ELSE DecNat(n \div 10) \o <<Digits[(n % 10) + 1]>>

\* fmt.Sprintf("%d", n)
Sprintd(n) == IF n < 0 THEN <<"-">> \o DecNat(-n) ELSE DecNat(n)

\* the byte of an ASCII character a query of the model uses
Ord(c) ==
    CASE c = "a" -> 97
      [] c = "=" -> 61
      [] c = "1" -> 49
      [] c = "?" -> 63

Base64Common == <<
    "A", "B", "C", "D", "E", "F", "G", "H", "I", "J", "K", "L", "M", "N",
    "O", "P", "Q", "R", "S", "T", "U", "V", "W", "X", "Y", "Z", "a", "b",
    "c", "d", "e", "f", "g", "h", "i", "j", "k", "l", "m", "n", "o", "p",
    "q", "r", "s", "t", "u", "v", "w", "x", "y", "z", "0", "1", "2", "3",
    "4", "5", "6", "7", "8", "9">>

\* base64.StdEncoding's alphabet and base64.URLEncoding's
StdAlphabet == Base64Common \o <<"+", "/">>
URLAlphabet == Base64Common \o <<"-", "_">>

RECURSIVE Base64(_, _)
\* (*Encoding).EncodeToString over the bytes of s, with "=" padding
Base64(s, alphabet) ==
    LET b(i) == Ord(s[i])
        ch(n) == alphabet[n + 1]
    IN  IF Len(s) = 0 THEN <<>>
        ELSE IF Len(s) = 1 THEN
            <<ch(b(1) \div 4), ch((b(1) % 4) * 16), "=", "=">>
        ELSE IF Len(s) = 2 THEN
            <<ch(b(1) \div 4), ch((b(1) % 4) * 16 + b(2) \div 16),
              ch((b(2) % 16) * 4), "=">>
        ELSE
            <<ch(b(1) \div 4), ch((b(1) % 4) * 16 + b(2) \div 16),
              ch((b(2) % 16) * 4 + b(3) \div 64), ch(b(3) % 64)>>
            \o Base64(SubSeq(s, 4, Len(s)), alphabet)

base64Encode(s) == Base64(s, StdAlphabet)

base64URLEncode(s) == Base64(s, URLAlphabet)

\* url.QueryEscape of one character: unreserved characters are kept, a space
\* becomes "+", every other byte its %XX
EscapeChar(c) ==
    CASE c = " " -> <<"+">>
      [] c = "," -> <<"%", "2", "C">>
      [] c = "=" -> <<"%", "3", "D">>
      [] c = "+" -> <<"%", "2", "B">>
      [] c = "/" -> <<"%", "2", "F">>
      [] c = "@" -> <<"%", "4", "0">>
      [] c = "?" -> <<"%", "3", "F">>
      [] c = "&" -> <<"%", "2", "6">>
      [] OTHER -> <<c>>

QueryEscape(s) == Concat([i \in 1..Len(s) |-> EscapeChar(s[i])])

----------------------------------------------------------------------------
(* net/url: url.Values and its Encode.  A parameter name is one token of   *)
(* the text (no name of either program holds a character QueryEscape       *)
(* changes); a value is escaped character by character.                    *)

\* params.Add(k, v) on the list of (name, value) pairs
Add(params, k, v) == Append(params, <<k, v>>)

\* every parameter name of the two programs, in the order sort.Strings gives
KeyOrder == <<"api-key", "email", "end_time", "fields", "is_web", "key",
              "page", "page_size", "qbase64", "search", "size",
              "start_time">>

\* url.Values.Encode: "name=value" pairs sorted by name and joined by "&"
Encode(params) ==
    LET has(k) == \E i \in 1..Len(params) : params[i][1] = k
        val(k) == params[CHOOSE i \in 1..Len(params) : params[i][1] = k][2]
        keys   == SelectSeq(KeyOrder, has)
    IN  Join([i \in 1..Len(keys) |->
                <<keys[i], "=">> \o QueryEscape(val(keys[i]))], <<"&">>)

----------------------------------------------------------------------------
(* encoding/json and fmt. *)

\* the value json.Unmarshal leaves in the struct field tagged k: that of the
\* JSON object when the body is an object holding k, and zero otherwise (a
\* JSON null body, an absent key)
Field(body, k, zero) ==
    IF body.json = "object" /\ k \in DOMAIN body.obj THEN body.obj[k] ELSE zero

RECURSIVE Errorf(_)
\* fmt.Errorf(format) without operands, the text of the error it returns: "%%"
\* gives "%", a "%" that ends the format gives "%!(NOVERB)", and "%" before
\* any other character c of the model's messages (no flag, digit, "." or "[")
\* gives "%!c(MISSING)"
Errorf(format) ==
    IF format = <<>> THEN <<>>
    ELSE IF format[1] # "%" THEN <<format[1]>> \o Errorf(Tail(format))
    ELSE IF Len(format) = 1 THEN
        <<"%", "!", "(", "N", "O", "V", "E", "R", "B", ")">>
    ELSE IF format[2] = "%" THEN <<"%">> \o Errorf(Tail(Tail(format)))
    ELSE <<"%", "!", format[2], "(", "M", "I", "S", "S", "I", "N", "G", ")">>
         \o Errorf(Tail(Tail(format)))

\* the errors of the libraries, by the Go type that carries them
TransportErr == [type |-> "*url.Error", msg |-> <<"Get: dial tcp: refused">>]
ReadErr == [type |-> "io read error", msg |-> <<"unexpected EOF">>]
SyntaxErr == [type |-> "*json.SyntaxError", msg |-> <<"invalid character">>]
TypeErr == [type |-> "*json.UnmarshalTypeError",
            msg |-> <<"json: cannot unmarshal">>]
NoErr == [type |-> "nil", msg |-> <<>>]

\* the error fmt.Errorf(format) returns
ErrorfErr(format) == [type |-> "*errors.errorString", msg |-> Errorf(format)]

\* http.Get followed by ioutil.ReadAll on a reply of the network: the error,
\* or the body read.  The status code of the response is not looked at.
GetBody(reply) ==
    IF reply.net = "error" THEN [err |-> TransportErr, body |-> [json |-> "none"]]
    ELSE IF reply.read = "error" THEN [err |-> ReadErr, body |-> [json |-> "none"]]
    ELSE [err |-> NoErr, body |-> reply.body]

\* the error json.Unmarshal(body, &result) returns
UnmarshalErr(body) ==
    CASE body.json = "invalid"  -> SyntaxErr
      [] body.json = "mismatch" -> TypeErr
      [] OTHER                  -> NoErr

----------------------------------------------------------------------------
(* FOFA: mcp_fofa_server.go *)

FofaBaseURL == "https://fofa.info/api/v1"

NewFofaClient(e, k) == [Email |-> e, Key |-> k, BaseURL |-> FofaBaseURL]

\* the zero SearchResult filled from the fields of the JSON object
FofaUnmarshal(body) ==
    [Error   |-> Field(body, "error", FALSE),
     ErrMsg  |-> Field(body, "errmsg", <<>>),
     Results |-> Field(body, "results", <<>>)]

\* the URL FofaClient.Search requests
FofaURL(fc, query, page, size, fields) ==
    LET p1 == Add(<<>>, "qbase64", base64Encode(query))
        p2 == Add(p1, "email", fc.Email)
        p3 == Add(p2, "key", fc.Key)
        p4 == Add(p3, "page", Sprintd(page))
        p5 == Add(p4, "size", Sprintd(size))
        p6 == Add(p5, "fields", fields)
    IN  <<fc.BaseURL, "/search/all", "?">> \o Encode(p6)

\* FofaClient.Search as it would be with a retry: a second GET after one that
\* failed in the transport
FofaSearchRetry(fc, query, page, size, fields, reply) ==
    LET url == FofaURL(fc, query, page, size, fields)
        got == GetBody(reply)
        uerr == UnmarshalErr(got.body)
    IN  IF got.err = TransportErr THEN
            [issued |-> <<url, url>>, ok |-> FALSE, err |-> got.err]
        ELSE IF got.err # NoErr THEN
            [issued |-> <<url>>, ok |-> FALSE, err |-> got.err]
        ELSE IF uerr # NoErr THEN
            [issued |-> <<url>>, ok |-> FALSE, err |-> uerr]
        ELSE
            [issued |-> <<url>>, ok |-> TRUE, err |-> NoErr,
             result |-> FofaUnmarshal(got.body)]

\* FofaClient.Search: the requests issued, and (result, err)
FofaSearch(fc, query, page, size, fields, reply) ==
    LET url == FofaURL(fc, query, page, size, fields)
        got == GetBody(reply)
        uerr == UnmarshalErr(got.body)
    IN  IF got.err # NoErr THEN
            [issued |-> <<url>>, ok |-> FALSE, err |-> got.err]
        ELSE IF uerr # NoErr THEN
            [issued |-> <<url>>, ok |-> FALSE, err |-> uerr]
        ELSE
            [issued |-> <<url>>, ok |-> TRUE, err |-> NoErr,
             result |-> FofaUnmarshal(got.body)]

\* the defaulting as it would be if it also filled in the fields the schema
\* documents as default, "host,ip,port"
FofaDefaultsFields(a) ==
    LET a1 == IF a.Page = 0 THEN [a EXCEPT !.Page = 1] ELSE a
        a2 == IF a1.Size = 0 THEN [a1 EXCEPT !.Size = 50] ELSE a1
    IN  IF a2.Fields = <<>>
        THEN [a2 EXCEPT !.Fields = <<"h", "o", "s", "t", ",", "i", "p", ",",
                                     "p", "o", "r", "t">>]
        ELSE a2

\* the defaults the fofa_search handler gives Page and Size
FofaDefaults(a) ==
    LET a1 == IF a.Page = 0 THEN [a EXCEPT !.Page = 1] ELSE a
    IN  IF a1.Size = 0 THEN [a1 EXCEPT !.Size = 50] ELSE a1

\* "搜索结果(共%d条):\n"
Header(n) ==
    <<"U641C", "U7D22", "U7ED3", "U679C", "(", "U5171">> \o Sprintd(n)
    \o <<"U6761", ")", ":", "\n">>

RECURSIVE FofaLinesReversed(_)
\* the loop as it would be if it ran over the items from the last to the first
FofaLinesReversed(results) ==
    IF results = <<>> THEN <<>>
    ELSE FofaLinesReversed(Tail(results))
         \o Join(Head(results), <<" ", "|", " ">>) \o <<"\n">>

RECURSIVE FofaLines(_)
\* the loop over result.Results: one Fprintln of the joined fields per item
FofaLines(results) ==
    IF results = <<>> THEN <<>>
    ELSE Join(Head(results), <<" ", "|", " ">>) \o <<"\n">>
         \o FofaLines(Tail(results))

FofaFormat(result) == Header(Len(result.Results)) \o FofaLines(result.Results)

\* the handler registered for fofa_search, on the arguments and the reply of
\* the network to its request
FofaHandler(e, k, arguments, reply) ==
    LET a == FofaDefaults(arguments)
        client == NewFofaClient(e, k)
        s == FofaSearch(client, a.Query, a.Page, a.Size, a.Fields, reply)
        base == [args |-> arguments, passed |-> a, issued |-> s.issued,
                 reply |-> reply]
    IN  IF ~s.ok THEN
            [kind |-> "error", err |-> s.err, text |-> <<>>] @@ base
        ELSE IF s.result.Error THEN
            [kind |-> "error", err |-> ErrorfErr(s.result.ErrMsg),
             text |-> <<>>] @@ base
        ELSE
            [kind |-> "text", err |-> NoErr, text |-> FofaFormat(s.result)]
            @@ base

----------------------------------------------------------------------------
(* Hunter: unnamed/part_000 *)

HunterBaseURL == "https://hunter.qianxin.com/openApi/search"

NewHunterClient(apiKey) == [APIKey |-> apiKey, BaseURL |-> HunterBaseURL]

\* a nil *ResultData
NilData == [nil |-> TRUE]

\* the zero SearchResult filled from the fields of the JSON object; "data"
\* absent or null leaves Data nil
HunterUnmarshal(body) ==
    [Code    |-> Field(body, "code", 0),
     Message |-> Field(body, "message", <<>>),
     Data    |-> Field(body, "data", NilData)]

\* the URL HunterClient.Search requests
HunterURL(hc, query, page, size, isWeb, startTime, endTime) ==
    LET p1 == Add(<<>>, "api-key", hc.APIKey)
        p2 == Add(p1, "search", base64URLEncode(query))
        p3 == Add(p2, "page", Sprintd(page))
        p4 == Add(p3, "page_size", Sprintd(size))
        p5 == Add(p4, "is_web", Sprintd(isWeb))
        p6 == IF startTime # <<>> THEN Add(p5, "start_time", startTime) ELSE p5
        p7 == IF endTime # <<>> THEN Add(p6, "end_time", endTime) ELSE p6
    IN  <<hc.BaseURL, "?">> \o Encode(p7)

\* HunterClient.Search: the requests issued, and (result, err)
HunterSearch(hc, query, page, size, isWeb, startTime, endTime, reply) ==
    LET url == HunterURL(hc, query, page, size, isWeb, startTime, endTime)
        got == GetBody(reply)
        uerr == UnmarshalErr(got.body)
        result == HunterUnmarshal(got.body)
    IN  IF got.err # NoErr THEN
            [issued |-> <<url>>, ok |-> FALSE, err |-> got.err]
        ELSE IF uerr # NoErr THEN
            [issued |-> <<url>>, ok |-> FALSE, err |-> uerr]
        ELSE IF result.Code # 200 THEN
            [issued |-> <<url>>, ok |-> FALSE, err |-> ErrorfErr(result.Message)]
        ELSE
            [issued |-> <<url>>, ok |-> TRUE, err |-> NoErr, result |-> result]

\* the defaults the hunter_search handler gives Page, Size and IsWeb
HunterDefaults(a) ==
    LET a1 == IF a.Page = 0 THEN [a EXCEPT !.Page = 1] ELSE a
        a2 == IF a1.Size = 0 THEN [a1 EXCEPT !.Size = 20] ELSE a1
    IN  IF a2.IsWeb = 0 THEN [a2 EXCEPT !.IsWeb = 1] ELSE a2

\* itemMap[k]: nil when the key is absent
MapIndex(m, k) == IF k \in DOMAIN m THEN m[k] ELSE [t |-> "nil"]

\* the verb %s on an interface{} value decoded from JSON
VerbS(x) ==
    CASE x.t = "str" -> x.v
      [] x.t = "num" ->
            <<"%", "!", "s", "(", "f", "l", "o", "a", "t", "6", "4", "=">>
            \o Sprintd(x.n) \o <<")">>
      [] OTHER -> <<"%", "!", "s", "(", "<", "n", "i", "l", ">", ")">>

\* the verb %v on an interface{} value decoded from JSON
VerbV(x) ==
    CASE x.t = "str" -> x.v
      [] x.t = "num" -> Sprintd(x.n)
      [] OTHER -> <<"<", "n", "i", "l", ">">>

\* "IP: %s | 端口: %v | 标题: %s\n" on the three values of one item
HunterLine(itemMap) ==
    <<"I", "P", ":", " ">> \o VerbS(MapIndex(itemMap, "ip"))
    \o <<" ", "|", " ", "U7AEF", "U53E3", ":", " ">>
    \o VerbV(MapIndex(itemMap, "port"))
    \o <<" ", "|", " ", "U6807", "U9898", ":", " ">>
    \o VerbS(MapIndex(itemMap, "web_title")) \o <<"\n">>

RECURSIVE HunterLines(_)
\* the loop over result.Data.Arr: the text written, and whether the type
\* assertion item.(map[string]interface{}) panicked on an item
HunterLines(arr) ==
    IF arr = <<>> THEN [panic |-> FALSE, text |-> <<>>]
    ELSE IF ~Head(arr).object THEN [panic |-> TRUE, text |-> <<>>]
    ELSE LET rest == HunterLines(Tail(arr))
         IN  [panic |-> rest.panic,
              text |-> HunterLine(Head(arr).m) \o rest.text]

\* the handler registered for hunter_search, on the arguments and the reply
\* of the network to its request
HunterHandler(k, arguments, reply) ==
    LET a == HunterDefaults(arguments)
        client == NewHunterClient(k)
        s == HunterSearch(client, a.Query, a.Page, a.Size, a.IsWeb,
                          a.StartTime, a.EndTime, reply)
        base == [args |-> arguments, passed |-> a, issued |-> s.issued,
                 reply |-> reply]
    IN  IF ~s.ok THEN
            [kind |-> "error", err |-> s.err, text |-> <<>>] @@ base
        ELSE IF s.result.Data = NilData THEN
            \* result.Data.Total dereferences a nil pointer
            [kind |-> "panic", err |-> NoErr, text |-> <<>>] @@ base
        ELSE LET lines == HunterLines(s.result.Data.Arr)
             IN  IF lines.panic THEN
                     [kind |-> "panic", err |-> NoErr, text |-> <<>>] @@ base
                 ELSE
                     [kind |-> "text", err |-> NoErr,
                      text |-> Header(s.result.Data.Total) \o lines.text]
                     @@ base

----------------------------------------------------------------------------
(* The inputs of a run: the flags, the arguments of an invocation and the  *)
(* reply of the network to the request of the invocation.                  *)

Programs == {"fofa", "hunter"}

\* the values of the flags -email (FOFA only) and -key; <<>> is the flag's
\* default ""
Emails == {<<>>, <<"u", "@", "x">>}
Keys == {<<>>, <<"k", "1">>}

Queries == {<<"a", "=", "1">>, <<"?", "?", "?">>}
Ints == -1..MaxArg
IsWebs == 0..3
FieldLists == {<<>>, <<"i", "p", ",", "p", "o", "r", "t">>}
Times == {<<>>, <<"2", "0", "2", "4", "-", "0", "1", "-", "3", "1">>}

FofaArgs == [Query : Queries, Page : Ints, Size : Ints, Fields : FieldLists]

HunterArgs == [Query : Queries, Page : Ints, Size : Ints, IsWeb : IsWebs,
               StartTime : Times, EndTime : Times]

\* sequences over S of length at most n
SeqUpTo(S, n) == UNION {[1..m -> S] : m \in 0..n}

\* the messages a backend reports
Msgs == SeqUpTo({"e", "%", "s"}, MaxMsgLen)

\* rows of a FOFA response: the values of the fields asked for
FofaRows == {<<>>, <<<<"h">>>>, <<<<"h">>, <<"8", "0">>>>,
             <<<<"8", "0">>, <<"h">>>>, <<<<"b", "\n", "c">>>>}

\* elements of "arr" of a Hunter response: JSON objects, and a value that is
\* no object
HunterItems ==
    {[object |-> TRUE,
      m |-> [ip |-> [t |-> "str", v |-> <<"1", ".", "1">>],
             port |-> [t |-> "num", n |-> 80],
             web_title |-> [t |-> "str", v |-> <<"t">>]]],
     [object |-> TRUE,
      m |-> [ip |-> [t |-> "str", v |-> <<"2", ".", "2">>],
             port |-> [t |-> "str", v |-> <<"8", "0">>]]],
     [object |-> TRUE,
      m |-> [ip |-> [t |-> "num", n |-> 1],
             port |-> [t |-> "nil"],
             web_title |-> [t |-> "str", v |-> <<"b", "\n", "c">>]]],
     [object |-> FALSE]}

\* the JSON objects a FOFA reply may hold
FofaObjects ==
    {[error |-> FALSE]}
    \cup [error : {TRUE}, errmsg : Msgs, results : SeqUpTo(FofaRows, 1)]
    \cup [error : {FALSE}, errmsg : {<<>>, <<"e">>},
          results : SeqUpTo(FofaRows, MaxRecords)]
    \cup [results : SeqUpTo(FofaRows, 1)]

HunterData == [Total : 0..(MaxRecords + 1), Arr : SeqUpTo(HunterItems, MaxRecords)]

\* the JSON objects a Hunter reply may hold
HunterObjects ==
    {[message |-> <<"e">>]}
    \cup [code : {200}]
    \cup [code : {200, 401}, message : Msgs]
    \cup [code : {401}, message : Msgs, data : {[Total |-> 1, Arr |-> <<>>]}]
    \cup [code : {200}, message : {<<>>, <<"s">>}, data : HunterData]

\* the bodies of a reply: text that is no JSON, JSON of the wrong shape,
\* JSON null, and a JSON object
Bodies(objects) ==
    {[json |-> "invalid"], [json |-> "mismatch"], [json |-> "null"]}
    \cup [json : {"object"}, obj : objects]

\* the replies of the network to one GET: no response, a response whose body
\* cannot be read, and a response with a status code and a body
Replies(objects) ==
    {[net |-> "error"]}
    \cup [net : {"ok"}, status : {200, 500}, read : {"error"}]
    \cup [net : {"ok"}, status : {200, 500}, read : {"ok"},
          body : Bodies(objects)]

FofaArgSample ==
    {[Query |-> <<"a", "=", "1">>, Page |-> 0, Size |-> 0,
      Fields |-> <<"i", "p", ",", "p", "o", "r", "t">>],
     [Query |-> <<"?", "?", "?">>, Page |-> 2, Size |-> 1, Fields |-> <<>>]}

HunterArgSample ==
    {[Query |-> <<"a", "=", "1">>, Page |-> 0, Size |-> 0, IsWeb |-> 0,
      StartTime |-> <<>>, EndTime |-> <<>>],
     [Query |-> <<"?", "?", "?">>, Page |-> 2, Size |-> 1, IsWeb |-> 3,
      StartTime |-> <<"2", "0", "2", "4", "-", "0", "1", "-", "3", "1">>,
      EndTime |-> <<>>]}

FofaReplySample ==
    {[net |-> "error"],
     [net |-> "ok", status |-> 200, read |-> "ok",
      body |-> [json |-> "object",
                obj |-> [error |-> FALSE, errmsg |-> <<>>,
                         results |-> <<<<<<"h">>, <<"8", "0">>>>>>]]]}

HunterReplySample ==
    {[net |-> "error"],
     [net |-> "ok", status |-> 200, read |-> "ok",
      body |-> [json |-> "object",
                obj |-> [code |-> 200, message |-> <<"s">>,
                         data |-> [Total |-> 1, Arr |-> <<>>]]]]}

\* the (arguments, reply) pairs of an invocation: every argument tuple with a
\* few replies, and every reply with a few argument tuples
FofaInputs ==
    (FofaArgs \X FofaReplySample) \cup (FofaArgSample \X Replies(FofaObjects))

HunterInputs ==
    (HunterArgs \X HunterReplySample)
    \cup (HunterArgSample \X Replies(HunterObjects))

----------------------------------------------------------------------------
(* main of either program. *)

NoInv == [kind |-> "none"]

\* flag.Parse has run: the state at the first statement after it
Init ==
    /\ prog \in Programs
    /\ email \in (IF prog = "fofa" THEN Emails ELSE {<<>>})
    /\ key \in Keys
    /\ pc = "parsed"
    /\ exitStatus = 0
    /\ tools = {}
    /\ nInv = 0
    /\ httpCalls = 0
    /\ last = NoInv

\* the test as it would be with && for ||: FOFA stops only when both flags
\* are missing
CredentialMissingBoth ==
    IF prog = "fofa" THEN email = <<>> /\ key = <<>> ELSE key = <<>>

\* the test of the flags main makes before anything else
CredentialMissing ==
    IF prog = "fofa" THEN email = <<>> \/ key = <<>> ELSE key = <<>>

\* the process ends: os.Exit(1), or a panic of the main goroutine (status 2)
Exit(status) ==
    /\ pc' = "exited"
    /\ exitStatus' = status
    /\ UNCHANGED <<prog, email, key, tools, nInv, httpCalls, last>>

\* main, up to the creation of the server
CheckCredentials ==
    /\ pc = "parsed"
    /\ IF CredentialMissing
       THEN Exit(IF prog = "fofa" THEN 1 ELSE 2)
       ELSE /\ pc' = "checked"
            /\ UNCHANGED <<prog, email, key, exitStatus, tools, nInv,
                           httpCalls, last>>

ToolName == IF prog = "fofa" THEN "fofa_search" ELSE "hunter_search"

\* server.RegisterTool: the tool is registered, or the library returns an
\* error and main panics
RegisterTool ==
    /\ pc = "checked"
    /\ \/ /\ pc' = "registered"
          /\ tools' = tools \cup {ToolName}
          /\ UNCHANGED <<prog, email, key, exitStatus, nInv, httpCalls, last>>
       \/ Exit(2)

\* server.Serve: invocations are served from now on, or the library returns
\* an error and main panics
Serve ==
    /\ pc = "registered"
    /\ \/ /\ pc' = "serving"
          /\ UNCHANGED <<prog, email, key, exitStatus, tools, nInv,
                         httpCalls, last>>
       \/ Exit(2)

\* what the handler of the program's tool does with one invocation
Handle(arguments, reply) ==
    IF prog = "fofa" THEN FofaHandler(email, key, arguments, reply)
    ELSE HunterHandler(key, arguments, reply)

\* one invocation of the registered tool, from the call of the handler to
\* its return; last holds the activation: its arguments, the requests it
\* issued, the reply and what it returned.  A handler that panics returns
\* nothing; what the library makes of the panic (the process dies, or it
\* goes on serving) is its own.
Invoke ==
    /\ pc = "serving"
    /\ ToolName \in tools
    /\ last = NoInv
    /\ nInv < MaxInv
    /\ \E in \in (IF prog = "fofa" THEN FofaInputs ELSE HunterInputs) :
         LET h == Handle(in[1], in[2])
         IN  /\ last' = h
             /\ nInv' = nInv + 1
             /\ httpCalls' = httpCalls + Len(h.issued)
             /\ \/ /\ pc' = "serving"
                   /\ exitStatus' = exitStatus
                \/ /\ h.kind = "panic"
                   /\ pc' = "exited"
                   /\ exitStatus' = 2
    /\ UNCHANGED <<prog, email, key, tools>>

\* the activation of the handler is over: its arguments and its result were
\* local to it, and nothing of them is kept for a later invocation
Return ==
    /\ pc = "serving"
    /\ last # NoInv
    /\ last' = NoInv
    /\ UNCHANGED <<prog, email, key, pc, exitStatus, tools, nInv, httpCalls>>

Next == CheckCredentials \/ RegisterTool \/ Serve \/ Invoke \/ Return

Spec == Init /\ [][Next]_vars

----------------------------------------------------------------------------
(* Reading a request and a text back, for the properties below. *)

RECURSIVE SplitOn(_, _)
\* the pieces of s between the occurrences of the token sep
SplitOn(s, sep) ==
    IF \A i \in 1..Len(s) : s[i] # sep THEN <<s>>
    ELSE LET i == CHOOSE j \in 1..Len(s) :
                    s[j] = sep /\ \A k \in 1..(j - 1) : s[k] # sep
         IN  <<SubSeq(s, 1, i - 1)>> \o SplitOn(SubSeq(s, i + 1, Len(s)), sep)

\* the character a %XX escape stands for
Unhex(h) ==
    CASE h = <<"2", "C">> -> ","
      [] h = <<"3", "D">> -> "="
      [] h = <<"2", "B">> -> "+"
      [] h = <<"2", "F">> -> "/"
      [] h = <<"4", "0">> -> "@"
      [] h = <<"3", "F">> -> "?"
      [] h = <<"2", "6">> -> "&"

RECURSIVE QueryUnescape(_)
\* what the backend's server reads from an escaped value
QueryUnescape(s) ==
    IF s = <<>> THEN <<>>
    ELSE IF s[1] = "%" THEN
        <<Unhex(SubSeq(s, 2, 3))>> \o QueryUnescape(SubSeq(s, 4, Len(s)))
    ELSE IF s[1] = "+" THEN <<" ">> \o QueryUnescape(Tail(s))
    ELSE <<s[1]>> \o QueryUnescape(Tail(s))

\* the "name=value" pieces of the query string of a URL
QueryPieces(url) ==
    LET q == CHOOSE j \in 1..Len(url) : url[j] = "?"
    IN  SplitOn(SubSeq(url, q + 1, Len(url)), "&")

\* the names of the parameters a URL carries
ParamNames(url) ==
    {QueryPieces(url)[i][1] : i \in 1..Len(QueryPieces(url))}

\* the value the backend reads for parameter k of a URL that carries it
ParamValue(url, k) ==
    LET ps == QueryPieces(url)
        piece == ps[CHOOSE i \in 1..Len(ps) : ps[i][1] = k]
    IN  QueryUnescape(SubSeq(piece, 3, Len(piece)))

DigitValue(c) == CHOOSE d \in 0..9 : Digits[d + 1] = c

RECURSIVE ParseNat(_)
ParseNat(s) ==
    IF s = <<>> THEN 0
    ELSE 10 * ParseNat(SubSeq(s, 1, Len(s) - 1)) + DigitValue(s[Len(s)])

\* the integer a decimal text stands for
ParseInt(s) == IF s[1] = "-" THEN 0 - ParseNat(Tail(s)) ELSE ParseNat(s)

\* the request of the invocation held in last
SentURL == last.issued[1]
SentPage == ParseInt(ParamValue(SentURL, "page"))
SentSize ==
    ParseInt(ParamValue(SentURL, IF prog = "fofa" THEN "size" ELSE "page_size"))

\* an invocation has been handled and its activation is still held in last
Handled == last # NoInv

\* the reply of the invocation in last was read and decoded as JSON
Decoded ==
    /\ Handled
    /\ last.reply.net = "ok"
    /\ last.reply.read = "ok"
    /\ last.reply.body.json \in {"object", "null"}

\* the value of key k of the reply's JSON object, zero when there is none
ReplyField(k, zero) ==
    LET b == last.reply.body
    IN  IF b.json = "object" /\ k \in DOMAIN b.obj THEN b.obj[k] ELSE zero

\* the backend's reply has its failure indicator set
BackendFailed ==
    /\ Decoded
    /\ IF prog = "fofa" THEN ReplyField("error", FALSE)
       ELSE ReplyField("code", 0) # 200

\* the message of the backend's reply
BackendMessage ==
    IF prog = "fofa" THEN ReplyField("errmsg", <<>>)
    ELSE ReplyField("message", <<>>)

----------------------------------------------------------------------------
(* C1 *)

SizeDefault == IF prog = "fofa" THEN 50 ELSE 20

\* C1: for both tools and every integer page and size argument, the request
\* carries page 1 when the argument is below 1, the backend's default size
\* (50 for FOFA, 20 for Hunter) when the size argument is below 1, and the
\* arguments unchanged when both are at least 1; so page >= 1 and size >= 1
\* hold of every request issued.
C1_PageSizeAtLeastOne ==
    Handled =>
        /\ last.args.Page < 1 => SentPage = 1
        /\ last.args.Size < 1 => SentSize = SizeDefault
        /\ (last.args.Page >= 1 /\ last.args.Size >= 1) =>
               (SentPage = last.args.Page /\ SentSize = last.args.Size)
        /\ SentPage >= 1
        /\ SentSize >= 1

----------------------------------------------------------------------------
(* C2 *)

\* C2: for both backends, when the decoded reply has its failure indicator
\* set (FOFA: error = true; Hunter: code # 200), the invocation returns an
\* error whose message is the backend's message unmodified, and no formatted
\* text.
C2_BackendMessageVerbatim ==
    BackendFailed =>
        /\ last.kind = "error"
        /\ last.err.msg = BackendMessage
        /\ last.text = <<>>

----------------------------------------------------------------------------
(* C3 *)

DecodeErrorTypes == {"*json.SyntaxError", "*json.UnmarshalTypeError"}

\* the reply was read, and its body is no valid JSON or its status is
\* outside 200..299
MalformedOrNon2xx ==
    /\ Handled
    /\ last.reply.net = "ok"
    /\ last.reply.read = "ok"
    /\ \/ last.reply.status \notin 200..299
       \/ last.reply.body.json = "invalid"

\* C3: for both backends, when the body of the reply is not valid JSON or
\* the HTTP status is not 2xx, the invocation fails with a decode error, an
\* outcome other than that of a failure the backend reports or of a
\* transport error, and nothing is formatted.
C3_DecodeErrorOnBadReply ==
    MalformedOrNon2xx =>
        /\ last.kind = "error"
        /\ last.err.type \in DecodeErrorTypes
        /\ last.err.type \notin {"*errors.errorString", "*url.Error"}
        /\ last.text = <<>>

----------------------------------------------------------------------------
(* C4 *)

\* C4: every invocation of the registered tool issues exactly one GET to
\* its backend, whatever its outcome: none returns without having issued the
\* request and none issues a second one.
C4_OneRequestPerInvocation ==
    /\ httpCalls = nInv
    /\ Handled => Len(last.issued) = 1

\* an invocation that failed in the transport has been handled after an
\* earlier one
C4_Witness ==
    /\ Handled
    /\ nInv = 2
    /\ last.kind = "error"
    /\ last.err.type = "*url.Error"

----------------------------------------------------------------------------
(* C5 *)

\* C5: once startup has succeeded no invocation ends the process, and for
\* every reply of the backend the handler finishes with a text or with an
\* error, one of the two and never neither.
C5_TextOrError ==
    /\ nInv > 0 => pc = "serving"
    /\ Handled =>
         \/ last.kind = "text" /\ last.err = NoErr
         \/ last.kind = "error" /\ last.err # NoErr /\ last.text = <<>>

----------------------------------------------------------------------------
(* C6 *)

\* the records of the reply the invocation in last formatted
Records ==
    IF prog = "fofa" THEN ReplyField("results", <<>>)
    ELSE ReplyField("data", [Arr |-> <<>>]).Arr

\* the lines of a text that ends each line with "\n"
LinesOf(text) ==
    LET pieces == SplitOn(text, "\n")
    IN  SubSeq(pieces, 1, Len(pieces) - 1)

\* the count the header line states: the digits between "(共" and "条):"
HeaderCount(line) ==
    LET a == CHOOSE i \in 1..Len(line) : line[i] = "U5171"
        b == CHOOSE i \in 1..Len(line) : line[i] = "U6761"
    IN  ParseInt(SubSeq(line, a + 1, b - 1))

\* the line of a FOFA record: its fields in their order, " | " between them
FofaRecordText(row) ==
    Concat([i \in 1..Len(row) |->
              IF i = 1 THEN row[i] ELSE <<" ", "|", " ">> \o row[i]])

\* a value of a Hunter record as text; a value that is no string or is
\* missing is shown as Go's fmt shows it
ShownAs(m, k, verb) ==
    IF k \notin DOMAIN m \/ m[k].t = "nil" THEN
        IF verb = "s" THEN <<"%", "!", "s", "(", "<", "n", "i", "l", ">", ")">>
        ELSE <<"<", "n", "i", "l", ">">>
    ELSE IF m[k].t = "str" THEN m[k].v
    ELSE IF verb = "v" THEN Sprintd(m[k].n)
    ELSE <<"%", "!", "s", "(", "f", "l", "o", "a", "t", "6", "4", "=">>
         \o Sprintd(m[k].n) \o <<")">>

\* the line of a Hunter record: address, port and title under their labels
HunterRecordText(item) ==
    <<"I", "P", ":", " ">> \o ShownAs(item.m, "ip", "s")
    \o <<" ", "|", " ", "U7AEF", "U53E3", ":", " ">>
    \o ShownAs(item.m, "port", "v")
    \o <<" ", "|", " ", "U6807", "U9898", ":", " ">>
    \o ShownAs(item.m, "web_title", "s")

RecordText(r) ==
    IF prog = "fofa" THEN FofaRecordText(r) ELSE HunterRecordText(r)

\* no text of a record holds a line break of its own
NoLineBreakInRecords ==
    \A i \in 1..Len(Records) :
        \A j \in 1..Len(RecordText(Records[i])) :
            RecordText(Records[i])[j] # "\n"

\* the original statement of C6: the text of a successful response is a
\* header line stating the number of records, then exactly one line per
\* record in the order of the response; no records, count 0 and no lines.
C6_Original ==
    (Handled /\ last.kind = "text") =>
        LET lines == LinesOf(last.text)
        IN  /\ HeaderCount(lines[1]) = Len(Records)
            /\ Len(lines) = 1 + Len(Records)
            /\ \A i \in 1..Len(Records) : lines[i + 1] = RecordText(Records[i])
            /\ Records = <<>> => (HeaderCount(lines[1]) = 0 /\ Len(lines) = 1)

\* the count the header states: the number of records of the response for
\* FOFA, the total the backend reports for Hunter
StatedCount ==
    IF prog = "fofa" THEN Len(Records)
    ELSE ReplyField("data", [Total |-> 0]).Total

\* C6 (amended): the text of a successful response is a header line stating
\* a count, the number of records for FOFA and the total the backend reports
\* for Hunter (which need not be the number of records, nor 0 when there are
\* none), followed by the text of each record ended by a line break, in the
\* order of the response and nothing else; that is exactly one line per
\* record when no text of a record holds a line break, and no line at all
\* when there are no records.
C6_HeaderThenRecordsInOrder ==
    (Handled /\ last.kind = "text") =>
        LET lines == LinesOf(last.text)
            head == lines[1] \o <<"\n">>
        IN  /\ HeaderCount(lines[1]) = StatedCount
            /\ last.text =
                 head \o Concat([i \in 1..Len(Records) |->
                                    RecordText(Records[i]) \o <<"\n">>])
            /\ NoLineBreakInRecords =>
                 /\ Len(lines) = 1 + Len(Records)
                 /\ \A i \in 1..Len(Records) :
                        lines[i + 1] = RecordText(Records[i])
            /\ Records = <<>> => Len(lines) = 1

\* a Hunter response without records whose total is not 0 has been formatted
C6_Witness ==
    /\ Handled
    /\ last.kind = "text"
    /\ prog = "hunter"
    /\ Records = <<>>
    /\ StatedCount = 1

----------------------------------------------------------------------------
(* C7 *)

OptionalParams == {"fields", "start_time", "end_time"}

\* C7: an optional parameter that is unset (FOFA: an empty list of fields;
\* Hunter: an empty start_time or end_time) is absent from the query string,
\* no request carries an optional parameter with an empty value, and a
\* bound of the time range that is set is sent as given.
C7_UnsetOptionalOmitted ==
    Handled =>
        /\ \A k \in OptionalParams \cap ParamNames(SentURL) :
               ParamValue(SentURL, k) # <<>>
        /\ prog = "fofa" =>
               (last.args.Fields = <<>> => "fields" \notin ParamNames(SentURL))
        /\ prog = "hunter" =>
               /\ last.args.StartTime = <<>> <=>
                      "start_time" \notin ParamNames(SentURL)
               /\ last.args.EndTime = <<>> <=>
                      "end_time" \notin ParamNames(SentURL)
               /\ last.args.StartTime # <<>> =>
                      ParamValue(SentURL, "start_time") = last.args.StartTime
               /\ last.args.EndTime # <<>> =>
                      ParamValue(SentURL, "end_time") = last.args.EndTime

----------------------------------------------------------------------------
(* C8 *)

\* a credential the program requires is empty
RequiredCredentialEmpty ==
    \/ prog = "fofa" /\ (email = <<>> \/ key = <<>>)
    \/ prog = "hunter" /\ key = <<>>

\* C8: when a required credential is missing at startup (FOFA: email or key
\* empty; Hunter: key empty) the process does nothing but exit with a status
\* other than 0: no tool is registered, no invocation is accepted and no
\* request is issued; an invocation is served only when every required
\* credential was given.
C8_MissingCredentialIsFatal ==
    /\ RequiredCredentialEmpty =>
         /\ pc \in {"parsed", "exited"}
         /\ pc = "exited" => exitStatus # 0
         /\ tools = {}
         /\ nInv = 0
         /\ httpCalls = 0
         /\ last = NoInv
    /\ (nInv > 0 \/ tools # {}) => ~RequiredCredentialEmpty

\* FOFA started with an email and without a key has exited with status 1
C8_Witness ==
    /\ prog = "fofa"
    /\ email # <<>>
    /\ key = <<>>
    /\ pc = "exited"
    /\ exitStatus = 1

----------------------------------------------------------------------------
(* C9 *)

Defaults(a) == IF prog = "fofa" THEN FofaDefaults(a) ELSE HunterDefaults(a)

\* C9: the defaulting of a tool (page, size and, for Hunter, is_web, which
\* becomes 1 when 0) is idempotent: defaulting the arguments the handler
\* passes on gives them again; and it changes neither the query nor the
\* fields nor the bounds of the time range.
C9_DefaultingIdempotent ==
    Handled =>
        /\ Defaults(last.passed) = last.passed
        /\ Defaults(Defaults(last.args)) = Defaults(last.args)
        /\ last.passed.Query = last.args.Query
        /\ prog = "fofa" => last.passed.Fields = last.args.Fields
        /\ prog = "hunter" =>
               /\ last.passed.StartTime = last.args.StartTime
               /\ last.passed.EndTime = last.args.EndTime
               /\ last.args.IsWeb = 0 => last.passed.IsWeb = 1

\* Hunter has defaulted page, size and is_web of an invocation
C9_Witness ==
    /\ Handled
    /\ prog = "hunter"
    /\ last.args.Page = 0 /\ last.passed.Page = 1
    /\ last.args.Size = 0 /\ last.passed.Size = 20
    /\ last.args.IsWeb = 0 /\ last.passed.IsWeb = 1

====
